---- MODULE Spec2Model ----
(***************************************************************************)
(* A model of tpot/builtins/meta_estimator.py: the confound-adjusting      *)
(* meta-estimators MetaRegressor and MetaClassifier, the per-column        *)
(* adjusters X_adj_fit / X_adj_predict and check_if_any_float.             *)
(*                                                                         *)
(* Numbers are fixed point: the integer v stands for the real v / Scale.   *)
(* A data frame is a sequence of column names over a table of values; a    *)
(* numpy array is a sequence of columns without usable names (each column  *)
(* carries, as bookkeeping only, where it came from and which nuisance     *)
(* model touched it).  The sklearn models and the wrapped estimator are    *)
(* outside the file: they are stood in for by deterministic look-up        *)
(* learners, which remember their training rows.                           *)
(***************************************************************************)
EXTENDS Integers, Sequences, FiniteSets, TLC

VARIABLES
  cls,          \* "MetaRegressor" or "MetaClassifier"
  estimator,    \* self.estimator: the wrapped estimator and its fitted state
  A,            \* self.A
  C,            \* self.C
  subset,       \* self.subset
  attrs,        \* the fitted-state attributes that exist on the instance
  col_ests,     \* self.col_ests
  values_list,  \* self.values_list
  sel_subset,   \* self.sel_subset
  B_est,        \* self.B_est
  call,         \* the last call made: its operation and its arguments
  X_caller,     \* the caller's frame object as it is after the last call
  ret,          \* what the last call returned or raised
  fit_done,     \* history: some fit call has returned normally
  last_fit      \* history: the most recent fit call and what it trained on

vars == <<cls, estimator, A, C, subset, attrs, col_ests, values_list,
          sel_subset, B_est, call, X_caller, ret, fit_done, last_fit>>

config == <<cls, A, C, subset>>

persisted == <<estimator, attrs, col_ests, values_list, sel_subset, B_est>>

----------------------------------------------------------------------------
(* Bounds of the model *)

(* fixed point: the integer v stands for v / Scale *)
Scale == 4

(* the longest column handed to check_if_any_float on its own *)
MaxLen == 3

----------------------------------------------------------------------------
(* Sequences *)

Range(s) == {s[i] : i \in 1..Len(s)}

InSeq(a, s) == \E i \in 1..Len(s) : s[i] = a

SetMin(S) == CHOOSE m \in S : \A x \in S : m <= x

SetMax(S) == CHOOSE m \in S : \A x \in S : m >= x

RECURSIVE SortedSeq(_)
SortedSeq(S) ==
  IF S = {} THEN <<>> ELSE <<SetMin(S)>> \o SortedSeq(S \ {SetMin(S)})

(* Body applied to the value of v, v being evaluated once *)
With(v, Body(_)) == CHOOSE out \in {Body(r) : r \in {v}} : TRUE

----------------------------------------------------------------------------
(* Python values *)

PyNone == [t |-> "None", b |-> FALSE]

PyBool(b) == [t |-> "bool", b |-> b]

Truthy(v) == v.t = "bool" /\ v.b

NoneCols == [isNone |-> TRUE, names |-> <<>>]

Cols(names) == [isNone |-> FALSE, names |-> names]

(* int(a): truncation toward zero, in whole units *)
PyInt(a) == IF a >= 0 THEN a \div Scale ELSE -((-a) \div Scale)

(* np.rint: the nearest whole number, a tie going to the even one *)
Rint(v) ==
  LET q  == v \div Scale
      lo == q * Scale
      r  == v - lo
  IN  IF 2 * r < Scale THEN lo
      ELSE IF 2 * r > Scale THEN lo + Scale
      ELSE IF q % 2 = 0 THEN lo ELSE lo + Scale

(* the raise statement of Python 3: only exception instances and classes
   can be raised; anything else raises TypeError in its place *)
Raise(obj) == IF obj.isException THEN obj.type ELSE "TypeError"

(* the object of lines 198, 322, 388, 521: the tuple (ValueError, "At least
   one of A_train and C_train must be specified") *)
ConfigErrorObject == [isException |-> FALSE, type |-> "tuple"]

----------------------------------------------------------------------------
(* The data the calls are made with *)

BaseVal(n) ==
  CASE n = "N1" -> <<0, Scale, 2 * Scale>>
    [] n = "N2" -> <<Scale, 0, Scale>>
    [] n = "N3" -> <<2 * Scale, 2 * Scale, 0>>
    [] n = "N6" -> <<0, Scale + (Scale \div 2), 2 * Scale>>
    [] n = "N7" -> <<0, Scale, 2 * Scale>>
    [] n = "N8" -> <<Scale, Scale, 0>>
    [] n = "N9" -> <<2 * Scale, 0, Scale>>

NRows == Len(BaseVal("N1"))

Rows == 1..NRows

Layouts ==
  { <<"N1", "N2", "N3", "N6", "N7", "N8">>,
    <<"N8", "N3", "N7", "N2", "N6", "N1">>,
    <<"N1", "N2", "N3", "N6", "N7", "N8", "N9">>,
    <<"N1", "N2", "N3", "N6", "N8">>,
    <<"N1", "N2", "N3", "N6", "N8", "N9">> }

FitLayouts ==
  { <<"N1", "N2", "N3", "N6", "N7", "N8">>,
    <<"N1", "N2", "N3", "N6", "N7", "N8", "N9">> }

Shifts == {0, Scale \div 2}

Frames == {[cols |-> c, shift |-> s] : c \in Layouts, s \in Shifts}

Ys == { <<0, Scale, 2 * Scale>>, <<Scale, 2 * Scale, Scale>> }

FitFrames == {f \in Frames : f.shift = 0 /\ f.cols \in FitLayouts}

PredictFrames == {f \in Frames : f.shift = 0 \/ f.cols \in FitLayouts}

Faults == {"none", "nuisance1", "nuisance2", "outcome", "estimator"}

ColVals(df, n) == [i \in Rows |-> BaseVal(n)[i] + df.shift]

----------------------------------------------------------------------------
(* pandas and numpy *)

Has(df, n) == InSeq(n, df.cols)

(* [a for a in names if a in df.columns] *)
CommFeatures(names, df) == LET T(a) == Has(df, a) IN SelectSeq(names, T)

(* df.drop(names, axis=1): raises KeyError unless every name is a column *)
DropOk(df, names) == \A i \in 1..Len(names) : Has(df, names[i])

Drop(df, names) ==
  LET T(a) == ~InSeq(a, names) IN [df EXCEPT !.cols = SelectSeq(df.cols, T)]

(* df[names]: raises KeyError unless every name is a column *)
SelectOk(df, names) == \A i \in 1..Len(names) : Has(df, names[i])

Select(df, names) == [df EXCEPT !.cols = names]

NoBy == [grp |-> 0, col |-> "", cov |-> <<>>, covq |-> <<>>]

RawColumn(df, n) == [src |-> n, how |-> "raw", by |-> NoBy, vals |-> ColVals(df, n)]

(* df.values, and a frame handed to numpy as it is: two dimensions *)
Values(df) ==
  [ndim |-> 2, cols |-> [k \in 1..Len(df.cols) |-> RawColumn(df, df.cols[k])]]

(* np.array([]): one dimension, no element *)
EmptyArray == [ndim |-> 1, cols |-> <<>>]

Size(m) == Len(m.cols) * NRows

(* np.hstack((a, b)): the arrays must have the same number of dimensions *)
HstackOk(a, b) == a.ndim = b.ndim

Hstack(a, b) == [ndim |-> a.ndim, cols |-> a.cols \o b.cols]

(* X[names].values as rows, the shape the models are fitted on *)
Block(df, names) ==
  [i \in Rows |-> [k \in 1..Len(names) |-> ColVals(df, names[k])[i]]]

(* the rows of a matrix, bookkeeping dropped: what an estimator reads *)
MatrixRows(m) == [i \in Rows |-> [k \in 1..Len(m.cols) |-> m.cols[k].vals[i]]]

----------------------------------------------------------------------------
(* The estimators outside the file *)

Unfitted(kind) ==
  [kind |-> kind, fitted |-> FALSE, Xfit |-> <<>>, yfit |-> <<>>,
   classes_ |-> <<>>, by |-> NoBy]

(* fit(X, y); classes_ are the sorted distinct labels *)
FitModel(kind, Xrows, y, by) ==
  [kind |-> kind, fitted |-> TRUE, Xfit |-> Xrows, yfit |-> y,
   classes_ |-> SortedSeq(Range(y)), by |-> by]

(* the first training row equal to the row asked about, 0 when none is *)
Match(m, row) ==
  IF \E i \in 1..Len(m.Xfit) : m.Xfit[i] = row
  THEN SetMin({i \in 1..Len(m.Xfit) : m.Xfit[i] = row})
  ELSE 0

(* LinearRegression.predict of one row *)
LinearPredict(m, row) ==
  With(Match(m, row), LAMBDA i : IF i # 0 THEN m.yfit[i] ELSE m.yfit[1])

Classes(m) == m.classes_

(* predict_proba of one row, aligned to classes_, in halves *)
PredictProba(m, row) ==
  With(Match(m, row), LAMBDA i :
    [k \in 1..Len(m.classes_) |->
       IF i # 0
       THEN (IF m.classes_[k] = m.yfit[i] THEN 2 ELSE 0)
       ELSE (IF k = 1 THEN 1 ELSE 0) + (IF k = Len(m.classes_) THEN 1 ELSE 0)])

RECURSIVE SumSeq(_)
SumSeq(s) == IF s = <<>> THEN 0 ELSE Head(s) + SumSeq(Tail(s))

(* the wrapped estimator's predict of one row: the target of a training row
   it has seen, and a function of the row's values otherwise *)
EstimatorPredict(m, row) ==
  With(Match(m, row), LAMBDA i :
    IF i # 0 THEN m.yfit[i] ELSE SumSeq(row) - 2 * Scale)

(* sklearn estimators refuse a matrix whose number of columns is not the one
   they were fitted with *)
EstimatorAccepts(m, rows) == Len(rows[1]) = Len(m.Xfit[1])

(* LogisticRegression.predict of one row: the most probable class *)
LogisticPredict(m, row) ==
  With(Match(m, row), LAMBDA i : IF i # 0 THEN m.yfit[i] ELSE Classes(m)[1])

ModelPredict(m, row) ==
  IF m.kind = "LinearRegression" THEN LinearPredict(m, row) ELSE LogisticPredict(m, row)

(* only the classifier has predict_proba *)
HasPredictProba(m) == m.kind = "LogisticRegression"

(* for gt_idx, gt in enumerate(classes_): gt = int(gt);
   acc = acc - gt * proba[:, gt_idx]      (sign = -1)
   acc = acc + gt * proba[:, gt_idx]      (sign = +1)   for one row *)
RECURSIVE ClassLoop(_, _, _, _, _)
ClassLoop(acc, sign, classes, proba, k) ==
  IF k > Len(classes) THEN acc
  ELSE ClassLoop(acc + sign * ((PyInt(classes[k]) * proba[k] * Scale) \div 2),
                 sign, classes, proba, k + 1)

----------------------------------------------------------------------------
(* check_if_any_float *)

(* a `return` with no expression hands None to the caller *)
ReturnNothing(computed) == PyNone

check_if_any_float(snp_array) ==
  LET if_any_float ==
        \E i \in 1..Len(snp_array) : PyInt(snp_array[i]) * Scale # snp_array[i]
  IN  ReturnNothing(PyBool(if_any_float))

----------------------------------------------------------------------------
(* X_adj_fit *)

(* line 88, `values == 'dosage'`: the list of tags against a string *)
ListEqualsStr(list, str) == FALSE

ColumnTag(X_train_col) ==
  IF Truthy(check_if_any_float(X_train_col)) THEN "dosage" ELSE "ternary"

(* one turn of the loop of lines 75-108 *)
FitColumn(X_train, n, C_train, by) ==
  LET X_train_col == ColVals(X_train, n)
      value == ColumnTag(X_train_col)
      values == <<value>>
  IN  IF ListEqualsStr(values, "dosage")
      THEN With(FitModel("LinearRegression", C_train, X_train_col, by),
                LAMBDA regr :
                  [tag |-> value, est |-> regr,
                   col |-> [src |-> n, how |-> "adjusted", by |-> by,
                            vals |-> [i \in Rows |->
                                        X_train_col[i] - LinearPredict(regr, C_train[i])]]])
      ELSE With(FitModel("LogisticRegression", C_train,
                         [i \in Rows |-> PyInt(X_train_col[i]) * Scale], by),
                LAMBDA clf :
                  [tag |-> value, est |-> clf,
                   col |-> [src |-> n, how |-> "adjusted", by |-> by,
                            vals |-> [i \in Rows |->
                                        ClassLoop(X_train_col[i], -1, Classes(clf),
                                                  PredictProba(clf, C_train[i]), 1)]]])

(* X_adj_fit(X_train, C_train); grp and cov say which group and which
   covariate columns the call is made for; upstream says that the first
   nuisance model's fit raises *)
X_adj_fit(X_train, C_train, grp, cov, upstream) ==
  LET n == Len(X_train.cols)
      By(k) == [grp |-> grp, col |-> X_train.cols[k], cov |-> cov, covq |-> cov]
      F(k) == FitColumn(X_train, X_train.cols[k], C_train, By(k))
  IN  IF n = 0
      THEN [ok |-> TRUE, adj |-> Values(X_train), col_est |-> <<>>,
            values |-> <<>>, nfit |-> 0]
      ELSE IF upstream
      THEN [ok |-> FALSE, adj |-> EmptyArray, col_est |-> <<>>,
            values |-> <<>>, nfit |-> 1]
      ELSE With([k \in 1..n |-> F(k)], LAMBDA fs :
             [ok |-> TRUE,
              adj |-> [ndim |-> 2, cols |-> [k \in 1..n |-> fs[k].col]],
              col_est |-> [k \in 1..n |-> fs[k].est],
              values |-> [k \in 1..n |-> fs[k].tag],
              nfit |-> n])

----------------------------------------------------------------------------
(* X_adj_predict *)

Min3(a, b, c) == SetMin({a, b, c})

(* one turn of the loop of lines 130-141 *)
PredictColumn(X_test, n, C_test, est, tag, covq) ==
  LET X_test_col == ColVals(X_test, n)
      by == [est.by EXCEPT !.covq = covq]
  IN  IF tag = "dosage"
      THEN [src |-> n, how |-> "adjusted", by |-> by,
            vals |-> [i \in Rows |-> X_test_col[i] - ModelPredict(est, C_test[i])]]
      ELSE [src |-> n, how |-> "adjusted", by |-> by,
            vals |-> [i \in Rows |->
                        ClassLoop(X_test_col[i], -1, Classes(est),
                                  PredictProba(est, C_test[i]), 1)]]

ZeroColumn(n) == [src |-> n, how |-> "zeros", by |-> NoBy, vals |-> [i \in Rows |-> 0]]

(* X_adj_predict(X_test, C_test, col_est, values) *)
X_adj_predict(X_test, C_test, col_est, values, covq) ==
  LET n == Len(X_test.cols)
      z == Min3(Len(values), Len(col_est), n)
  IN  IF n = 0 THEN [ok |-> TRUE, npred |-> 0, adj |-> Values(X_test)]
      ELSE IF \E k \in 1..z : values[k] # "dosage" /\ ~HasPredictProba(col_est[k])
      THEN [ok |-> FALSE, npred |-> 0, adj |-> EmptyArray]
      ELSE [ok |-> TRUE, npred |-> z,
            adj |-> [ndim |-> 2,
                     cols |-> [k \in 1..n |->
                                 IF k <= z
                                 THEN PredictColumn(X_test, X_test.cols[k], C_test,
                                                    col_est[k], values[k], covq)
                                 ELSE ZeroColumn(X_test.cols[k])]]]

----------------------------------------------------------------------------
(* What fit and predict share *)

NoFrame == [cols |-> <<>>, shift |-> 0]

WorkFrames_NoCopy(X, a, c) ==
  LET afterA == IF a.isNone THEN X ELSE Drop(X, a.names)
      afterC == IF c.isNone THEN afterA ELSE Drop(afterA, c.names)
  IN  [okA |-> a.isNone \/ DropOk(X, a.names),
       okC |-> c.isNone \/ DropOk(afterA, c.names),
       caller |-> afterC,
       work |-> afterC]

(* X_train = pd.DataFrame.copy(X), then the in-place drops of A and of C on
   the copy: the caller's frame is another object and keeps its columns *)
WorkFrames(X, a, c) ==
  LET afterA == IF a.isNone THEN X ELSE Drop(X, a.names)
      afterC == IF c.isNone THEN afterA ELSE Drop(afterA, c.names)
  IN  [okA |-> a.isNone \/ DropOk(X, a.names),
       okC |-> c.isNone \/ DropOk(afterA, c.names),
       caller |-> X,
       work |-> afterC]

(* the branches that choose B_train / B_test; with neither A nor C the last
   branch reads A_train, which was never bound *)
CovariateBlock(X, a, c) ==
  IF c.isNone /\ ~a.isNone THEN [ok |-> TRUE, rows |-> Block(X, a.names)]
  ELSE IF a.isNone /\ ~c.isNone THEN [ok |-> TRUE, rows |-> Block(X, c.names)]
  ELSE IF a.isNone THEN [ok |-> FALSE, rows |-> <<>>]
  ELSE [ok |-> TRUE, rows |-> Block(X, a.names \o c.names)]

OutcomeKind(k) == IF k = "MetaRegressor" THEN "LinearRegression" ELSE "LogisticRegression"

(* pi of one row: B_est.predict for the regressor, the class loop over
   B_est.predict_proba for the classifier *)
Pi(k, b, row) ==
  IF k = "MetaRegressor" THEN LinearPredict(b, row)
  ELSE ClassLoop(0, 1, Classes(b), PredictProba(b, row), 1)

(* if X_subset_adj.size == 0: X_subset_adj = tmp  else: hstack *)
Accumulate(X_subset_adj, tmp) ==
  IF Size(X_subset_adj) = 0 THEN tmp ELSE Hstack(X_subset_adj, tmp)

FaultAt(fault, k) ==
  (fault = "nuisance1" /\ k = 1) \/ (fault = "nuisance2" /\ k = 2)

----------------------------------------------------------------------------
(* fit *)

Now ==
  [ok |-> TRUE, err |-> "", attrs |-> attrs, col_ests |-> col_ests,
   values_list |-> values_list, sel_subset |-> sel_subset, B_est |-> B_est,
   estimator |-> estimator, X_adj |-> EmptyArray, nfit |-> 0]

Failed(r, err) == [r EXCEPT !.ok = FALSE, !.err = err]

FitRejected_ResetFirst(r) ==
  Failed([r EXCEPT !.attrs = @ \cup {"col_ests", "values_list"},
                   !.col_ests = <<>>, !.values_list = <<>>],
         "TypeError")

(* the raise of lines 197-198 and 387-388 is the first statement of fit *)
FitRejected(r) == Failed(r, Raise(ConfigErrorObject))

ResetLists_KeepOld(r) == [r EXCEPT !.attrs = @ \cup {"col_ests", "values_list"}]

(* lines 208-209: both lists are reset before anything is fitted *)
ResetLists(r) ==
  [r EXCEPT !.attrs = @ \cup {"col_ests", "values_list"},
            !.col_ests = <<>>, !.values_list = <<>>]

(* lines 213-214, 224-225, 240-241: what one X_adj_fit call leaves behind *)
Stored(r, f, X_adj) ==
  IF ~f.ok THEN Failed([r EXCEPT !.nfit = @ + f.nfit], "UpstreamError")
  ELSE [r EXCEPT !.X_adj = X_adj,
                 !.col_ests = Append(@, f.col_est),
                 !.values_list = Append(@, f.values),
                 !.nfit = @ + f.nfit]

(* lines 211-214 *)
FitSubsetNone(r, X, X_train, fault) ==
  With(X_adj_fit(X_train, Block(X, C.names), 1, C.names, FaultAt(fault, 1)),
       LAMBDA f : Stored(r, f, f.adj))

(* lines 215-225 *)
FitSubsetList(r, X, X_train, fault) ==
  LET comm_features == CommFeatures(subset.names, X_train)
      X_train_unsel == Values(Drop(X_train, comm_features))
  IN  With(X_adj_fit(Select(X_train, comm_features), Block(X, C.names), 1,
                     C.names, FaultAt(fault, 1)),
           LAMBDA f : Stored(r, f, Hstack(f.adj, X_train_unsel)))

(* lines 229-241: the loop over the pairs, from pair k on *)
RECURSIVE FitPairs(_, _, _, _, _)
FitPairs(r, X, X_train, fault, k) ==
  IF k > Len(subset.pairs) \/ ~r.ok THEN r
  ELSE
    LET subC == subset.pairs[k].cov
        comm_features == CommFeatures(subset.pairs[k].feats, X_train)
        r1 == [r EXCEPT !.sel_subset = @ \o comm_features]
    IN  IF ~SelectOk(X, subC) THEN Failed(r1, "KeyError")
        ELSE With(X_adj_fit(Select(X_train, comm_features), Block(X, subC), k,
                            subC, FaultAt(fault, k)),
                  LAMBDA f :
                    With(Stored(r1, f, Accumulate(r.X_adj, f.adj)),
                         LAMBDA r2 : FitPairs(r2, X, X_train, fault, k + 1)))

(* lines 226-243 *)
FitSubsetTuple(r, X, X_train, fault) ==
  With(FitPairs([r EXCEPT !.attrs = @ \cup {"sel_subset"}, !.sel_subset = <<>>,
                          !.X_adj = EmptyArray],
                X, X_train, fault, 1),
       LAMBDA r1 :
         LET X_train_unsel == Values(Drop(X_train, r1.sel_subset))
         IN  IF ~r1.ok THEN r1
             ELSE IF ~HstackOk(r1.X_adj, X_train_unsel) THEN Failed(r1, "ValueError")
             ELSE [r1 EXCEPT !.X_adj = Hstack(@, X_train_unsel)])

(* lines 204-243 *)
FitFeatures(r, X, X_train, fault) ==
  IF C.isNone THEN [r EXCEPT !.X_adj = Values(X_train)]
  ELSE IF subset.kind = "None" THEN FitSubsetNone(ResetLists(r), X, X_train, fault)
  ELSE IF subset.kind = "list" THEN FitSubsetList(ResetLists(r), X, X_train, fault)
  ELSE FitSubsetTuple(ResetLists(r), X, X_train, fault)

FitModels_RaiseAfterLastFit(r1, B_rows, y, fault) ==
  IF fault = "outcome" THEN Failed([r1 EXCEPT !.nfit = @ + 1], "UpstreamError")
  ELSE With(FitModel(OutcomeKind(cls), B_rows, y, NoBy), LAMBDA b :
         LET y_train_adj == [i \in Rows |-> y[i] - Pi(cls, b, B_rows[i])]
             done == [r1 EXCEPT !.B_est = b, !.nfit = @ + 2,
                                !.estimator = FitModel("wrapped", MatrixRows(r1.X_adj),
                                                       y_train_adj, NoBy)]
         IN  IF fault = "estimator" THEN Failed(done, "UpstreamError") ELSE done)

(* lines 254-259 and 450-458, once B_est holds a new, unfitted model *)
FitModels(r1, B_rows, y, fault) ==
  IF fault = "outcome" THEN Failed([r1 EXCEPT !.nfit = @ + 1], "UpstreamError")
  ELSE With(FitModel(OutcomeKind(cls), B_rows, y, NoBy), LAMBDA b :
         LET y_train_adj == [i \in Rows |-> y[i] - Pi(cls, b, B_rows[i])]
         IN  IF fault = "estimator"
             THEN Failed([r1 EXCEPT !.B_est = b, !.nfit = @ + 2], "UpstreamError")
             ELSE [r1 EXCEPT !.B_est = b, !.nfit = @ + 2,
                             !.estimator = FitModel("wrapped", MatrixRows(r1.X_adj),
                                                    y_train_adj, NoBy)])

(* lines 245-260 and 435-459 *)
FitOutcome(r, X, y, fault) ==
  With(CovariateBlock(X, A, C), LAMBDA B_train :
    IF ~B_train.ok THEN Failed(r, "UnboundLocalError")
    ELSE FitModels([r EXCEPT !.attrs = @ \cup {"B_est"},
                             !.B_est = Unfitted(OutcomeKind(cls))],
                   B_train.rows, y, fault))

(* MetaRegressor.fit and MetaClassifier.fit *)
FitRun(X, y, fault) ==
  IF A.isNone /\ C.isNone THEN FitRejected(Now)
  ELSE With(WorkFrames(X, A, C), LAMBDA w :
         IF ~(w.okA /\ w.okC) THEN Failed(Now, "KeyError")
         ELSE With(FitFeatures(Now, X, w.work, fault), LAMBDA r :
                IF ~r.ok THEN r ELSE FitOutcome(r, X, y, fault)))

----------------------------------------------------------------------------
(* predict *)

NoResult ==
  [ok |-> TRUE, err |-> "", y_pred |-> <<>>, y_raw |-> <<>>, X_adj |-> EmptyArray,
   pi |-> <<>>, npred |-> 0]

Raised(p, err) == [p EXCEPT !.ok = FALSE, !.err = err]

(* self.col_ests[0], self.values_list[0]: the attribute, then the index *)
FirstGroupError ==
  IF ~({"col_ests", "values_list"} \subseteq attrs) THEN "AttributeError"
  ELSE IF col_ests = <<>> \/ values_list = <<>> THEN "IndexError"
  ELSE ""

(* what one X_adj_predict call adds to the result *)
Adjusted(p, a, X_adj) ==
  IF ~a.ok THEN Raised(p, "AttributeError")
  ELSE [p EXCEPT !.X_adj = X_adj, !.npred = @ + a.npred]

(* lines 284-289 *)
PredictSubsetNone(p, X, X_test) ==
  IF FirstGroupError # "" THEN Raised(p, FirstGroupError)
  ELSE With(X_adj_predict(X_test, Block(X, C.names), col_ests[1], values_list[1],
                          C.names),
            LAMBDA a : Adjusted(p, a, a.adj))

(* the columns line 294 drops: the configured list as it is *)
ListDropped(X_test) == subset.names

(* lines 290-299 *)
PredictSubsetList(p, X, X_test) ==
  LET comm_features == CommFeatures(subset.names, X_test)
      X_test_subset == Select(X_test, comm_features)
      X_test_unsel == Values(Drop(X_test, ListDropped(X_test)))
  IN  IF ~DropOk(X_test, ListDropped(X_test)) THEN Raised(p, "KeyError")
      ELSE IF FirstGroupError # "" THEN Raised(p, FirstGroupError)
      ELSE With(X_adj_predict(X_test_subset, Block(X, C.names), col_ests[1],
                              values_list[1], C.names),
                LAMBDA a : Adjusted(p, a, Hstack(a.adj, X_test_unsel)))

PairModels_FirstPair(k) == [col_est |-> col_ests[1], values |-> values_list[1]]

(* the stored models and tags the k-th turn of the loop of line 302 uses *)
PairModels(k) == [col_est |-> col_ests[k], values |-> values_list[k]]

(* the covariate columns the k-th turn reads: sub[0] *)
PairCovariates(k) == subset.pairs[k].cov

(* lines 302-315: the loop over zip(subset, col_ests, values_list), from
   turn k on *)
RECURSIVE PredictPairs(_, _, _, _)
PredictPairs(p, X, X_test, k) ==
  IF k > Min3(Len(subset.pairs), Len(col_ests), Len(values_list)) \/ ~p.ok THEN p
  ELSE
    LET cov == PairCovariates(k)
        comm_features == CommFeatures(subset.pairs[k].feats, X_test)
    IN  IF ~SelectOk(X, cov) THEN Raised(p, "KeyError")
        ELSE With(X_adj_predict(Select(X_test, comm_features), Block(X, cov),
                                PairModels(k).col_est, PairModels(k).values, cov),
                  LAMBDA a :
                    With(Adjusted(p, a, Accumulate(p.X_adj, a.adj)),
                         LAMBDA p1 : PredictPairs(p1, X, X_test, k + 1)))

(* lines 300-317 *)
PredictSubsetTuple(p, X, X_test) ==
  IF ~({"col_ests", "values_list"} \subseteq attrs) THEN Raised(p, "AttributeError")
  ELSE With(PredictPairs([p EXCEPT !.X_adj = EmptyArray], X, X_test, 1),
            LAMBDA p1 :
              LET X_test_unsel == Values(Drop(X_test, sel_subset))
              IN  IF ~p1.ok THEN p1
                  ELSE IF "sel_subset" \notin attrs THEN Raised(p1, "AttributeError")
                  ELSE IF ~DropOk(X_test, sel_subset) THEN Raised(p1, "KeyError")
                  ELSE IF ~HstackOk(p1.X_adj, X_test_unsel)
                  THEN Raised(p1, "ValueError")
                  ELSE [p1 EXCEPT !.X_adj = Hstack(@, X_test_unsel)])

(* lines 279-317 and 478-516 *)
PredictFeatures(p, X, X_test) ==
  IF C.isNone THEN [p EXCEPT !.X_adj = Values(X_test)]
  ELSE IF subset.kind = "None" THEN PredictSubsetNone(p, X, X_test)
  ELSE IF subset.kind = "list" THEN PredictSubsetList(p, X, X_test)
  ELSE PredictSubsetTuple(p, X, X_test)

ClampRound_NoClip(v, min_c, max_c) == Rint(v)

(* lines 540-543: round, then clip to the smallest and largest class *)
ClampRound(v, min_c, max_c) ==
  IF v > max_c THEN max_c ELSE IF v < min_c THEN min_c ELSE Rint(v)

(* lines 333 and 540-543 *)
FinalPrediction(k, v, b) ==
  IF k = "MetaRegressor" THEN v
  ELSE ClampRound(v, SetMin(Range(Classes(b))), SetMax(Range(Classes(b))))

(* lines 330-334 and 529-544, once B_test is bound *)
PredictModels(p, B_rows) ==
  IF "B_est" \notin attrs THEN Raised(p, "AttributeError")
  ELSE IF ~B_est.fitted THEN Raised(p, "NotFittedError")
  ELSE With([i \in Rows |-> Pi(cls, B_est, B_rows[i])], LAMBDA pi_test :
         With(MatrixRows(p.X_adj), LAMBDA rows :
           LET p1 == [p EXCEPT !.pi = pi_test, !.npred = @ + 1]
           IN  IF ~estimator.fitted THEN Raised(p1, "NotFittedError")
               ELSE IF ~EstimatorAccepts(estimator, rows) THEN Raised(p1, "ValueError")
               ELSE With([i \in Rows |->
                            EstimatorPredict(estimator, rows[i]) + pi_test[i]],
                         LAMBDA y_test_adj_pred_pi :
                           [p1 EXCEPT !.npred = @ + 1,
                                      !.y_raw = y_test_adj_pred_pi,
                                      !.y_pred =
                                        [i \in Rows |->
                                           FinalPrediction(cls, y_test_adj_pred_pi[i],
                                                           B_est)]])))

(* lines 319-334 and 518-544 *)
PredictOutcome(p, X) ==
  IF A.isNone /\ C.isNone THEN Raised(p, Raise(ConfigErrorObject))
  ELSE With(CovariateBlock(X, A, C), LAMBDA B_test :
         IF ~B_test.ok THEN Raised(p, "UnboundLocalError")
         ELSE PredictModels(p, B_test.rows))

(* MetaRegressor.predict and MetaClassifier.predict *)
PredictRun(X) ==
  With(WorkFrames(X, A, C), LAMBDA w :
    IF ~(w.okA /\ w.okC) THEN Raised(NoResult, "KeyError")
    ELSE With(PredictFeatures(NoResult, X, w.work), LAMBDA p :
           IF ~p.ok THEN p ELSE PredictOutcome(p, X)))

----------------------------------------------------------------------------
(* The configurations an instance is constructed with *)

SubNone == [kind |-> "None", names |-> <<>>, pairs |-> <<>>]

SubList(names) == [kind |-> "list", names |-> names, pairs |-> <<>>]

SubTuple(pairs) == [kind |-> "tuple", names |-> <<>>, pairs |-> pairs]

Subsets ==
  { SubNone,
    SubList(<<"N6", "N7">>),
    SubList(<<"N7", "X9", "N6">>),
    SubList(<<"N6", "N9">>),
    SubTuple(<< [cov |-> <<"N1">>, feats |-> <<"N6", "N7">>],
                [cov |-> <<"N2">>, feats |-> <<"N8", "N9">>],
                [cov |-> <<"N1", "N2">>, feats |-> <<"X9">>] >>) }

NoCall == [op |-> "init", X |-> NoFrame, col |-> <<>>]

NoRet ==
  [ok |-> TRUE, err |-> "", y_pred |-> <<>>, y_raw |-> <<>>, X_adj |-> EmptyArray,
   pi |-> <<>>, npred |-> 0, nfit |-> 0, value |-> PyNone]

NoFit == [ok |-> FALSE, X |-> NoFrame, y |-> <<>>]

(* __init__ stores its four arguments and nothing else *)
Init ==
  /\ cls \in {"MetaRegressor", "MetaClassifier"}
  /\ estimator = Unfitted("wrapped")
  /\ A \in {NoneCols, Cols(<<"N3">>)}
  /\ C \in {NoneCols, Cols(<<"N1", "N2">>)}
  /\ subset \in Subsets
  /\ attrs = {}
  /\ col_ests = <<>>
  /\ values_list = <<>>
  /\ sel_subset = <<>>
  /\ B_est = Unfitted("none")
  /\ call = NoCall
  /\ X_caller = NoFrame
  /\ ret = NoRet
  /\ fit_done = FALSE
  /\ last_fit = NoFit

Fit(X, y, fault) ==
  \E r \in {FitRun(X, y, fault)} :
      /\ call' = [NoCall EXCEPT !.op = "fit", !.X = X]
      /\ attrs' = r.attrs
      /\ col_ests' = r.col_ests
      /\ values_list' = r.values_list
      /\ sel_subset' = r.sel_subset
      /\ B_est' = r.B_est
      /\ estimator' = r.estimator
      /\ X_caller' = WorkFrames(X, A, C).caller
      /\ ret' = [NoRet EXCEPT !.ok = r.ok, !.err = r.err, !.nfit = r.nfit,
                              !.X_adj = r.X_adj]
      /\ fit_done' = (fit_done \/ r.ok)
      /\ last_fit' = [ok |-> r.ok, X |-> X, y |-> y]
      /\ UNCHANGED config

Predict(X) ==
  \E p \in {PredictRun(X)} :
      /\ call' = [NoCall EXCEPT !.op = "predict", !.X = X]
      /\ X_caller' = WorkFrames(X, A, C).caller
      /\ ret' = [NoRet EXCEPT !.ok = p.ok, !.err = p.err, !.y_pred = p.y_pred,
                              !.y_raw = p.y_raw, !.X_adj = p.X_adj, !.pi = p.pi,
                              !.npred = p.npred]
      /\ UNCHANGED <<config, persisted, fit_done, last_fit>>

Next ==
  \/ \E X \in FitFrames, y \in Ys, fault \in Faults : Fit(X, y, fault)
  \/ \E X \in PredictFrames : Predict(X)

Spec == Init /\ [][Next]_vars

----------------------------------------------------------------------------
(* check_if_any_float called on its own *)

CellValues == {0, Scale \div 2, Scale, Scale + (Scale \div 2), 2 * Scale}

Columns ==
  UNION {[1..n -> CellValues] : n \in 0..MaxLen}
    \cup { <<0, Scale, 2 * Scale, Scale, 0>> }

CheckIfAnyFloat(col) ==
  /\ call' = [NoCall EXCEPT !.op = "check_if_any_float", !.col = col]
  /\ ret' = [NoRet EXCEPT !.value = check_if_any_float(col)]
  /\ X_caller' = NoFrame
  /\ UNCHANGED <<config, persisted, fit_done, last_fit>>

NextClassify == \E col \in Columns : CheckIfAnyFloat(col)

(* the function is called without any instance at hand *)
InitClassify ==
  /\ Init
  /\ cls = "MetaRegressor"
  /\ A = NoneCols
  /\ C = NoneCols
  /\ subset = SubNone

SpecClassify == InitClassify /\ [][NextClassify]_vars

----------------------------------------------------------------------------
(* Properties *)

Unconfigured == A.isNone /\ C.isNone

(* C1: a fit call on an instance with A = None and C = None raises, invokes
   the fit of no nuisance model, of no outcome model and not of the wrapped
   estimator, and creates or changes none of col_ests, values_list,
   sel_subset, B_est (nor the wrapped estimator's fitted state). *)
C1_FitRejectedWithoutEffect ==
  [][(Unconfigured /\ call'.op = "fit")
       => (~ret'.ok /\ ret'.err # "" /\ ret'.nfit = 0 /\ persisted' = persisted)]_vars

C1_Witness ==
  /\ Unconfigured
  /\ call.op = "fit"
  /\ ~ret.ok
  /\ ret.nfit = 0
  /\ attrs = {}
  /\ ~estimator.fitted

(* C2: with neither A nor C configured, what fit and predict raise is the
   ValueError written at lines 198, 322, 388, 521, and no model has been
   fitted or asked for a prediction by then. *)
C2_ConfigErrorIsValueError ==
  (Unconfigured /\ call.op \in {"fit", "predict"})
    => (~ret.ok /\ ret.err = "ValueError" /\ ret.nfit = 0 /\ ret.npred = 0)

SameColumns(X1, X2) == Range(X1.cols) = Range(X2.cols)

(* C3: for every configuration with A and/or C set, a predict call that
   follows a successful fit, on a frame with the columns of the fitted frame
   in any order, succeeds and returns one prediction per row. *)
C3_PredictAcceptsMatchingFrame ==
  (~Unconfigured /\ call.op = "predict" /\ last_fit.ok
     /\ SameColumns(call.X, last_fit.X))
    => (ret.ok /\ Len(ret.y_pred) = NRows)

Names(m) == [k \in 1..Len(m.cols) |-> m.cols[k].src]

Hows(m) == [k \in 1..Len(m.cols) |-> m.cols[k].how]

Repeat(n, v) == [k \in 1..n |-> v]

(* the matrix a flat-list subset is meant to give on the feature frame X_f:
   the listed names that are columns, in list order and adjusted, then the
   other columns, in frame order and as they are *)
ListLayoutOk(m, X_f) ==
  LET present == CommFeatures(subset.names, X_f)
      rest == Drop(X_f, present).cols
  IN  /\ Names(m) = present \o rest
      /\ Hows(m) = Repeat(Len(present), "adjusted") \o Repeat(Len(rest), "raw")

(* C4: with a flat-list subset (and C set), no fit or predict call fails
   because a listed name is no column of the frame, and the matrix a call
   assembles is the adjusted present names followed by the other columns. *)
C4_FlatListIgnoresAbsentNames ==
  (~C.isNone /\ subset.kind = "list"
     /\ (call.op = "fit" \/ (call.op = "predict" /\ last_fit.ok)))
    => /\ ret.err # "KeyError"
       /\ ret.ok => ListLayoutOk(ret.X_adj, WorkFrames(call.X, A, C).work)

(* the pair a feature name is listed in *)
PairOf(n) == CHOOSE g \in 1..Len(subset.pairs) : InSeq(n, subset.pairs[g].feats)

AdjustedCols(m) == {k \in 1..Len(m.cols) : m.cols[k].how = "adjusted"}

(* C5: with a tuple subset, every column a fit or predict call adjusts is
   adjusted by a model fitted for its own pair, on that pair's covariate
   columns, and is adjusted with that pair's covariate columns; the stored
   models of pair g were fitted on pair g's covariates; the adjusted columns
   come first, pair after pair in the order given. *)
C5_PairsKeptApart ==
  (~C.isNone /\ subset.kind = "tuple")
    => /\ \A g \in 1..Len(col_ests) : \A k \in 1..Len(col_ests[g]) :
            /\ col_ests[g][k].by.grp = g
            /\ col_ests[g][k].by.cov = subset.pairs[g].cov
            /\ col_ests[g][k].Xfit = Block(last_fit.X, subset.pairs[g].cov)
            /\ InSeq(col_ests[g][k].by.col, subset.pairs[g].feats)
       /\ \A k \in AdjustedCols(ret.X_adj) :
            LET c == ret.X_adj.cols[k]
            IN  /\ c.by.grp = PairOf(c.src)
                /\ c.by.cov = subset.pairs[PairOf(c.src)].cov
                /\ c.by.covq = subset.pairs[PairOf(c.src)].cov
       /\ \A j, k \in 1..Len(ret.X_adj.cols) :
            (j < k /\ k \in AdjustedCols(ret.X_adj))
              => /\ j \in AdjustedCols(ret.X_adj)
                 /\ ret.X_adj.cols[j].by.grp <= ret.X_adj.cols[k].by.grp

C5_Witness ==
  /\ ~C.isNone
  /\ subset.kind = "tuple"
  /\ call.op = "predict"
  /\ ret.ok
  /\ \E j, k \in AdjustedCols(ret.X_adj) :
       ret.X_adj.cols[j].by.grp = 1 /\ ret.X_adj.cols[k].by.grp = 2

AnyNonInteger(col) == \E i \in 1..Len(col) : col[i] % Scale # 0

(* C6: check_if_any_float returns True when some value of the column is no
   whole number and False otherwise (an empty column included), and X_adj_fit
   tags a column 'dosage' in the first case and 'ternary' in the second. *)
C6_CheckIfAnyFloatReturnsBoolean ==
  /\ call.op = "check_if_any_float"
       => ret.value = PyBool(AnyNonInteger(call.col))
  /\ \A g \in 1..Len(values_list) : \A k \in 1..Len(values_list[g]) :
       values_list[g][k] =
         IF AnyNonInteger(ColVals(last_fit.X, col_ests[g][k].by.col))
         THEN "dosage" ELSE "ternary"

Abs(n) == IF n < 0 THEN -n ELSE n

MinClass == SetMin(Range(B_est.yfit))

MaxClass == SetMax(Range(B_est.yfit))

(* C7: every value MetaClassifier.predict returns is a whole number between
   the smallest and the largest class the outcome model was fitted on: the
   largest when wrapped prediction + pi is above it, the smallest when it is
   below it, and a nearest whole number otherwise. *)
C7_ClassifierPredictionsClamped ==
  (cls = "MetaClassifier" /\ call.op = "predict" /\ ret.ok)
    => \A i \in Rows :
         LET v == ret.y_raw[i]
             y == ret.y_pred[i]
         IN  /\ y % Scale = 0
             /\ MinClass <= y /\ y <= MaxClass
             /\ v > MaxClass => y = MaxClass
             /\ v < MinClass => y = MinClass
             /\ (MinClass <= v /\ v <= MaxClass) => 2 * Abs(y - v) <= Scale

C7_Witness ==
  /\ cls = "MetaClassifier"
  /\ call.op = "predict"
  /\ ret.ok
  /\ \E i \in Rows : ret.y_raw[i] > MaxClass /\ ret.y_pred[i] = MaxClass

(* C8: predict on the frame the last, successful fit was called with hands
   the wrapped estimator the matrix it was trained on and adds back the pi
   that fit subtracted from y; so if the wrapped estimator reproduces its
   training target there, predict returns y. *)
C8_RoundTrip ==
  (~Unconfigured /\ call.op = "predict" /\ last_fit.ok /\ call.X = last_fit.X)
    => /\ ret.ok
       /\ MatrixRows(ret.X_adj) = estimator.Xfit
       /\ \A i \in Rows : ret.pi[i] = last_fit.y[i] - estimator.yfit[i]
       /\ (\A i \in Rows :
             EstimatorPredict(estimator, estimator.Xfit[i]) = estimator.yfit[i])
            => ret.y_pred = last_fit.y

(* C9: a predict call changes none of col_ests, values_list, sel_subset,
   B_est, the wrapped estimator's fitted state, A, C, subset, leaves the
   caller's frame as it was passed, and repeats its result when repeated on
   the same frame. *)
C9_PredictChangesNothing ==
  [][call'.op = "predict"
       => /\ persisted' = persisted
          /\ config' = config
          /\ X_caller' = call'.X
          /\ (call.op = "predict" /\ call.X = call'.X) => ret' = ret]_vars

C9_Witness ==
  /\ call.op = "predict"
  /\ fit_done
  /\ ret.ok
  /\ ~C.isNone
  /\ X_caller = call.X
  /\ Len(X_caller.cols) > Len(ret.X_adj.cols)

(* C10: predict returns predictions only on an instance on which some fit
   call has returned normally; before that every predict call raises,
   whatever A, C and subset are and whatever failed fit calls left behind. *)
C10_PredictOnlyAfterFit ==
  /\ (call.op = "predict" /\ ~fit_done) => (~ret.ok /\ ret.y_pred = <<>>)
  /\ estimator.fitted => fit_done

C10_Witness ==
  /\ call.op = "predict"
  /\ ~fit_done
  /\ ~ret.ok
  /\ "B_est" \in attrs
  /\ B_est.fitted

(* what the claimed adjustment of a column is: for a continuous column, the
   column minus the prediction of a least-squares model fitted on the
   covariate block; for a categorical one, the column minus the sum over the
   classes of class value times predicted probability *)
ClaimedAdjust(X, c) ==
  LET col == ColVals(X, c.src)
      C_block == Block(X, c.by.cov)
  IN  IF AnyNonInteger(col)
      THEN [i \in Rows |->
              col[i] - LinearPredict(FitModel("LinearRegression", C_block, col, c.by),
                                     C_block[i])]
      ELSE With(FitModel("LogisticRegression", C_block, col, c.by), LAMBDA clf :
             [i \in Rows |->
                ClassLoop(col[i], -1, Classes(clf), PredictProba(clf, C_block[i]), 1)])

(* C11: every column X_adj_fit adjusts gets the tag and the model of its
   type: a column with a value that is no whole number is tagged 'dosage',
   its stored model is a LinearRegression and it is adjusted as column minus
   the linear prediction; any other column is tagged 'ternary', its stored
   model is a LogisticRegression and it is adjusted by the sum over the
   classes; so X_adj_predict finds a model of the kind its tag selects. *)
C11_NuisanceModelMatchesType ==
  /\ \A g \in 1..Len(col_ests) : \A k \in 1..Len(col_ests[g]) :
       LET continuous ==
             AnyNonInteger(ColVals(last_fit.X, col_ests[g][k].by.col))
       IN  /\ values_list[g][k] = IF continuous THEN "dosage" ELSE "ternary"
           /\ col_ests[g][k].kind =
                 IF continuous THEN "LinearRegression" ELSE "LogisticRegression"
  /\ (call.op = "fit" /\ ret.ok)
       => \A k \in AdjustedCols(ret.X_adj) :
            ret.X_adj.cols[k].vals = ClaimedAdjust(call.X, ret.X_adj.cols[k])

(* the groups of columns a configuration adjusts, and the columns of the
   feature frame X_f that fall into group g, in the order they are adjusted *)
NGroups == IF subset.kind = "tuple" THEN Len(subset.pairs) ELSE 1

GroupFeatures(g, X_f) ==
  IF subset.kind = "None" THEN X_f.cols
  ELSE IF subset.kind = "list" THEN CommFeatures(subset.names, X_f)
  ELSE CommFeatures(subset.pairs[g].feats, X_f)

(* C12: after a fit call that returned normally on an instance with C set,
   whatever calls came before it, col_ests and values_list hold one entry
   per group, in group order, and entry g holds one fitted model and one tag
   for each column of group g in the frame of that fit, in the order the
   columns were adjusted (an empty entry for a group without columns):
   nothing is left from earlier fit calls. *)
C12_BookkeepingOfLastFit ==
  (last_fit.ok /\ ~C.isNone)
    => LET X_f == WorkFrames(last_fit.X, A, C).work
       IN  /\ {"col_ests", "values_list"} \subseteq attrs
           /\ Len(col_ests) = NGroups
           /\ Len(values_list) = NGroups
           /\ \A g \in 1..NGroups :
                LET feats == GroupFeatures(g, X_f)
                IN  /\ Len(col_ests[g]) = Len(feats)
                    /\ Len(values_list[g]) = Len(feats)
                    /\ \A k \in 1..Len(feats) :
                         /\ col_ests[g][k].fitted
                         /\ col_ests[g][k].by.grp = g
                         /\ col_ests[g][k].by.col = feats[k]
                         /\ values_list[g][k] \in {"dosage", "ternary"}

C12_Witness ==
  /\ call.op = "fit"
  /\ ret.ok
  /\ ~C.isNone
  /\ subset.kind = "tuple"
  /\ ~Has(call.X, "N9")
  /\ Len(col_ests) = 3
  /\ Len(col_ests[1]) = 2
  /\ Len(col_ests[2]) = 1
  /\ col_ests[3] = <<>>
  /\ values_list[3] = <<>>

(* some group has another number of stored models than the frame X presents
   columns for it *)
CountMismatch(X) ==
  \E g \in 1..Len(col_ests) :
    Len(col_ests[g]) # Len(GroupFeatures(g, WorkFrames(X, A, C).work))

(* C13: a predict call that follows a successful fit (C set) and presents,
   for some group, another number of columns than that group has stored
   models, raises: it returns no prediction made from a matrix with a column
   zero-filled or adjusted by another column's model. *)
C13_MismatchNotSilentlyRecovered ==
  (call.op = "predict" /\ ~C.isNone /\ last_fit.ok /\ CountMismatch(call.X))
    => ~ret.ok

====
